---- MODULE Spec2Model ----
(***************************************************************************)
(* ShapeNetBase (pytorch3d/datasets/shapenet_base.py): the catalog of      *)
(* (synset id, model id) pairs with its alias / start / length maps, the   *)
(* selector resolution _handle_render_inputs and the sampling helper       *)
(* _sample_idxs_from_category.                                             *)
(*                                                                         *)
(* Conventions.  Python lists are sequences; a Python index i addresses    *)
(* element i + 1 of the sequence.  An Optional[List] argument is a record  *)
(* [isNone, list]; an Optional[str] category is a record [isNone, key].    *)
(* Python dicts are functions whose DOMAIN is the set of keys.  A str that *)
(* takes part in a path is a sequence of tokens, each token either the     *)
(* separator "/" or a non-empty run of characters holding no separator.    *)
(***************************************************************************)
EXTENDS Integers, Sequences, FiniteSets, TLC

VARIABLES synset_ids, model_ids, synset_inv, synset_starts, synset_lens,
          shapenet_dir, model_dir, loaded, op, args, ret, samples, warnings

vars == <<synset_ids, model_ids, synset_inv, synset_starts, synset_lens,
          shapenet_dir, model_dir, loaded, op, args, ret, samples, warnings>>

catalog == <<synset_ids, model_ids, synset_inv, synset_starts, synset_lens,
             shapenet_dir, model_dir, loaded>>

\* ---------------------------------------------------------------- bounds
\* longest run of one synset in a loaded catalog
MaxLen == 2
\* largest sample count a caller passes
MaxCount == 2
\* longest model_ids / idxs list a caller passes
MaxList == 2

\* ------------------------------------------------------- value universes
\* synset directories a dataset can load, in catalog order
LoadableSynsets == <<"s1", "s2">>
\* synset keys the alias map can name, loaded or not
AliasTargets == {LoadableSynsets[k] : k \in 1..Len(LoadableSynsets)}
Labels == {"chair", "table"}
CategoryTokens == Labels \cup AliasTargets
\* a categories list names at most as many categories as can be loaded
MaxCats == Len(LoadableSynsets)
\* model directory names: a synset holding n models holds the first n of them
ModelNames == <<"m1", "m2", "m3", "m4">>
\* model ids stored in a catalog, and one id no catalog holds
ModelIdPool == {ModelNames[k] : k \in 1..MaxLen}
RequestIds == ModelIdPool \cup {"mX"}
Sep == "/"
Roots == {<<>>, <<"data">>, <<"data", Sep>>}
Counts == 0..MaxCount

None == [isNone |-> TRUE, list |-> <<>>]
Some(l) == [isNone |-> FALSE, list |-> l]
NoCategory == [isNone |-> TRUE, key |-> ""]
Category(k) == [isNone |-> FALSE, key |-> k]
EmptyDict == [k \in {} |-> k]

SeqsUpTo(S, n) == UNION {[1..k -> S] : k \in 0..n}
NonEmptySeqs(S, n) == UNION {[1..k -> S] : k \in 1..n}
Opt(S) == {None} \cup {Some(l) : l \in S}

\* ------------------------------------------------------ helper functions
Values(d) == {d[k] : k \in DOMAIN d}

\* dict.get(key, default)
DictGet(d, key, default) == IF key \in DOMAIN d THEN d[key] ELSE default

\* off by one: the position counted from 1
ListIndex_FromOne(l, x) == CHOOSE i \in 1..Len(l) : l[i] = x /\ \A j \in 1..(i - 1) : l[j] # x

\* list.index(x): the Python index of the first occurrence
ListIndex(l, x) == (CHOOSE i \in 1..Len(l) : l[i] = x /\ \A j \in 1..(i - 1) : l[j] # x) - 1

\* x in list
InList(l, x) == \E i \in 1..Len(l) : l[i] = x

\* os.path.join of two strings (posixpath): an absolute component replaces
\* what came before, a separator is added only after a non-empty path that
\* does not already end with one
Join2(a, b) ==
    IF Len(b) > 0 /\ b[1] = Sep THEN b
    ELSE IF Len(a) = 0 \/ a[Len(a)] = Sep THEN a \o b
    ELSE a \o <<Sep>> \o b

\* os.path.join(a, b, c, d)
path_join(a, b, c, d) == Join2(Join2(Join2(a, b), c), d)

\* the str of a catalog id as path tokens (ids are directory names)
Str(id) == <<id>>

\* __len__
DatasetLen == Len(model_ids)

\* torch.multinomial(torch.ones(n), k, replacement): the set of tensors it can
\* return, as sequences of positions in 0..n-1; the empty set when it raises
\* (no sample requested, nothing to sample from, or more samples than
\* positions without replacement)
multinomial(n, k, replacement) ==
    IF k <= 0 \/ n <= 0 \/ (~replacement /\ k > n) THEN {}
    ELSE {s \in [1..k -> 0..(n - 1)] :
            replacement \/ \A i, j \in 1..k : i # j => s[i] # s[j]}

\* ------------------------------------------- _sample_idxs_from_category
\* start = self.synset_starts[category] if category is not None else 0
range_start(category) ==
    IF category.isNone THEN 0 ELSE synset_starts[category.key]

\* range_len = self.synset_lens[category] if category is not None else len(self)
range_len(category) ==
    IF category.isNone THEN DatasetLen ELSE synset_lens[category.key]

\* replacement already when the sample takes the whole range
use_replacement_AtEqual(sample_num, rlen) == sample_num >= rlen

\* replacement = sample_num > range_len
use_replacement(sample_num, rlen) == sample_num > rlen

\* multinomial(...) + start
shift(s, start) == [j \in 1..Len(s) |-> s[j] + start]

\* the warning names "all categories" whatever the category
replacement_warning_AllCategories(sample_num, category) ==
    [kind |-> "replacement", sample_num |-> sample_num, category |-> NoCategory]

\* the warning of the with-replacement fallback
replacement_warning(sample_num, category) ==
    [kind |-> "replacement", sample_num |-> sample_num, category |-> category]

SampleFail(status) == [status |-> status, out |-> <<>>, warned |-> <<>>]

\* every way one invocation of the helper can end: status "ok" with the
\* returned indices and the warnings it emitted, or the exception raised
\* (KeyError by the dict lookups, RuntimeError by torch.multinomial)
sample_idxs_from_category(sample_num, category) ==
    IF ~category.isNone /\ category.key \notin DOMAIN synset_starts
    THEN {SampleFail("KeyError")}
    ELSE IF ~category.isNone /\ category.key \notin DOMAIN synset_lens
    THEN {SampleFail("KeyError")}
    ELSE LET start == range_start(category)
             rlen == range_len(category)
             replacement == use_replacement(sample_num, rlen)
             drawn == multinomial(rlen, sample_num, replacement)
         IN  IF drawn = {} THEN {SampleFail("RuntimeError")}
             ELSE {[status |-> "ok",
                    out |-> shift(s, start),
                    warned |-> IF replacement
                               THEN <<replacement_warning(sample_num, category)>>
                               ELSE <<>>] : s \in drawn}

\* the record kept of one invocation of the helper
SampleCall(sample_num, category, r) ==
    [sample_num |-> sample_num, category |-> category,
     status |-> r.status, out |-> r.out]

\* ------------------------------------------------ _handle_render_inputs
Outcome(status, err, idxs, smp, wrn) ==
    [status |-> status, err |-> err, idxs |-> idxs, samples |-> smp, warnings |-> wrn]

\* an Optional[List] argument that is given and not empty
Given(a) == ~a.isNone /\ Len(a.list) > 0

\* branch 1: the index of every requested model id, or ValueError
resolve_model_ids(ids) ==
    IF \E i \in 1..Len(ids) : ~InList(model_ids, ids[i])
    THEN Outcome("ValueError", "model_id_not_found", <<>>, <<>>, <<>>)
    ELSE Outcome("ok", "", [i \in 1..Len(ids) |-> ListIndex(model_ids, ids[i])], <<>>, <<>>)

\* a default of two samples instead of one
default_sample_nums_Two(sample_nums) ==
    IF sample_nums.isNone THEN <<2>> ELSE sample_nums.list

\* sample_nums = [1] if sample_nums is None else sample_nums
default_sample_nums(sample_nums) ==
    IF sample_nums.isNone THEN <<1>> ELSE sample_nums.list

\* len(categories) != len(sample_nums) and len(sample_nums) != 1
lengths_mismatch(categories, nums) ==
    Len(categories) # Len(nums) /\ Len(nums) # 1

\* self.synset_inv.get(categories[i], categories[i])
resolve_category(token) == DictGet(synset_inv, token, token)

\* category not in self.synset_inv.values()
category_rejected(category) == category \notin Values(synset_inv)

\* the first count for every category
broadcast_sample_num_First(nums, i) == nums[1]

\* sample_nums[i] if len(sample_nums) > 1 else sample_nums[0]
broadcast_sample_num(nums, i) ==
    IF Len(nums) > 1 THEN nums[i] ELSE nums[1]

\* the new samples put in front of the accumulated ones
cat_Front(idxs_tensor, sampled_idxs) == sampled_idxs \o idxs_tensor

\* torch.cat((idxs_tensor, sampled_idxs))
cat(idxs_tensor, sampled_idxs) == idxs_tensor \o sampled_idxs

\* branch 2, the loop over the categories from position i on: every way it ends
RECURSIVE category_loop(_, _, _, _, _, _)
category_loop(categories, nums, i, idxs_tensor, smp, wrn) ==
    IF i > Len(categories) THEN {Outcome("ok", "", idxs_tensor, smp, wrn)}
    ELSE LET category == resolve_category(categories[i]) IN
         IF category_rejected(category)
         THEN {Outcome("ValueError", "category_not_in_dataset", <<>>, smp, wrn)}
         ELSE LET sample_num == broadcast_sample_num(nums, i) IN
              UNION {IF r.status = "ok"
                     THEN category_loop(categories, nums, i + 1,
                                        cat(idxs_tensor, r.out),
                                        Append(smp, SampleCall(sample_num, Category(category), r)),
                                        wrn \o r.warned)
                     ELSE {Outcome(r.status, "sample", <<>>,
                                   Append(smp, SampleCall(sample_num, Category(category), r)),
                                   wrn)}
                     : r \in sample_idxs_from_category(sample_num, Category(category))}

\* branch 2: the length rule, then the loop
resolve_categories(categories, sample_nums) ==
    LET nums == default_sample_nums(sample_nums) IN
    IF lengths_mismatch(categories, nums)
    THEN {Outcome("ValueError", "length_mismatch", <<>>, <<>>, <<>>)}
    ELSE category_loop(categories, nums, 1, <<>>, <<>>, <<>>)

\* only the upper bound is checked
idxs_out_of_bounds_UpperOnly(idxs) ==
    \E j \in 1..Len(idxs) : idxs[j] >= Len(model_ids)

\* any(idx < 0 or idx >= len(self.model_ids) for idx in idxs)
idxs_out_of_bounds(idxs) ==
    \E j \in 1..Len(idxs) : idxs[j] < 0 \/ idxs[j] >= Len(model_ids)

\* branch 3: the given indices unchanged, or IndexError
check_idxs(idxs) ==
    IF idxs_out_of_bounds(idxs)
    THEN Outcome("IndexError", "idx_out_of_bounds", <<>>, <<>>, <<>>)
    ELSE Outcome("ok", "", idxs, <<>>, <<>>)

\* the warning that only the first sample size is used
more_than_one_warning(nums) ==
    [kind |-> "more_than_one", sample_num |-> nums[1], category |-> NoCategory]

\* branch 4: sample sample_nums[0] indices from the whole dataset
resolve_default(sample_nums) ==
    LET nums == default_sample_nums(sample_nums)
        wrn == IF Len(nums) > 1 THEN <<more_than_one_warning(nums)>> ELSE <<>>
    IN  IF Len(nums) = 0
        THEN {Outcome("IndexError", "sample_nums_empty", <<>>, <<>>, wrn)}
        ELSE {IF r.status = "ok"
              THEN Outcome("ok", "", r.out,
                           <<SampleCall(nums[1], NoCategory, r)>>, wrn \o r.warned)
              ELSE Outcome(r.status, "sample", <<>>,
                           <<SampleCall(nums[1], NoCategory, r)>>, wrn)
              : r \in sample_idxs_from_category(nums[1], NoCategory)}

\* the chain with the categories branch tested before the model ids branch
resolve_idxs_CategoriesFirst(a) ==
    IF Given(a.categories) THEN resolve_categories(a.categories.list, a.sample_nums)
    ELSE IF Given(a.model_ids) THEN {resolve_model_ids(a.model_ids.list)}
    ELSE IF Given(a.idxs) THEN {check_idxs(a.idxs.list)}
    ELSE resolve_default(a.sample_nums)

\* the if / elif / elif / else chain: every way the index resolution ends
resolve_idxs(a) ==
    IF Given(a.model_ids) THEN {resolve_model_ids(a.model_ids.list)}
    ELSE IF Given(a.categories) THEN resolve_categories(a.categories.list, a.sample_nums)
    ELSE IF Given(a.idxs) THEN {check_idxs(a.idxs.list)}
    ELSE resolve_default(a.sample_nums)

\* list[idx] of Python: negative indices count from the end
PyIndexOk(l, idx) == -Len(l) <= idx /\ idx < Len(l)
PyItem(l, idx) == IF idx >= 0 THEN l[idx + 1] ELSE l[Len(l) + idx + 1]

\* one element of the returned list
model_path(idx) ==
    path_join(shapenet_dir, Str(PyItem(synset_ids, idx)), Str(PyItem(model_ids, idx)), model_dir)

\* the paths in reverse order
paths_of_Reversed(idxs) == [j \in 1..Len(idxs) |-> model_path(idxs[Len(idxs) + 1 - j])]

\* the returned list comprehension
paths_of(idxs) == [j \in 1..Len(idxs) |-> model_path(idxs[j])]

\* what the caller gets: the paths, or the exception
Returned(o) ==
    IF o.status # "ok"
    THEN [status |-> o.status, err |-> o.err, idxs |-> <<>>, paths |-> <<>>]
    ELSE IF \E j \in 1..Len(o.idxs) :
                ~PyIndexOk(synset_ids, o.idxs[j]) \/ ~PyIndexOk(model_ids, o.idxs[j])
    THEN [status |-> "IndexError", err |-> "list_index", idxs |-> <<>>, paths |-> <<>>]
    ELSE [status |-> "ok", err |-> "", idxs |-> o.idxs, paths |-> paths_of(o.idxs)]

\* ---------------------------------------------------------------- state
NoArgs ==
    [model_ids |-> None, categories |-> None, sample_nums |-> None, idxs |-> None,
     sample_num |-> 0, category |-> NoCategory]

NoRet == [status |-> "none", err |-> "", idxs |-> <<>>, paths |-> <<>>]

\* ShapeNetBase.__init__
Init ==
    /\ synset_ids = <<>>
    /\ model_ids = <<>>
    /\ synset_inv = EmptyDict
    /\ synset_starts = EmptyDict
    /\ synset_lens = EmptyDict
    /\ shapenet_dir = <<>>
    /\ model_dir = <<"model.obj">>
    /\ loaded = FALSE
    /\ op = "idle"
    /\ args = NoArgs
    /\ ret = NoRet
    /\ samples = <<>>
    /\ warnings = <<>>

\* The catalog a dataset class builds once, at construction: the synsets it
\* loads (lens[k] = -1: synset k is not loaded), in order, each one a
\* contiguous run of lens[k] models; the alias map is the label table of the
\* dataset and may name synsets the catalog does not hold.
Loaded(lens) == {k \in 1..Len(LoadableSynsets) : lens[k] >= 0}
RunLen(lens, k) == IF lens[k] >= 0 THEN lens[k] ELSE 0
RECURSIVE RunStart(_, _)
RunStart(lens, k) == IF k = 1 THEN 0 ELSE RunStart(lens, k - 1) + RunLen(lens, k - 1)
Total(lens) == RunStart(lens, Len(LoadableSynsets)) + RunLen(lens, Len(LoadableSynsets))
SynsetAt(lens, i) ==
    LoadableSynsets[CHOOSE k \in Loaded(lens) :
                        RunStart(lens, k) < i /\ i <= RunStart(lens, k) + lens[k]]
ModelAt(lens, i) ==
    ModelNames[i - RunStart(lens, CHOOSE k \in Loaded(lens) :
                        RunStart(lens, k) < i /\ i <= RunStart(lens, k) + lens[k])]
AliasMaps == UNION {[D -> AliasTargets] : D \in SUBSET Labels}

Load ==
    /\ ~loaded
    /\ op = "idle"
    /\ \E lens \in [1..Len(LoadableSynsets) -> (-1)..MaxLen] :
       \E inv \in AliasMaps, root \in Roots :
          /\ synset_ids' = [i \in 1..Total(lens) |-> SynsetAt(lens, i)]
          /\ model_ids' = [i \in 1..Total(lens) |-> ModelAt(lens, i)]
          /\ synset_inv' = inv
          /\ synset_starts' = [s \in {LoadableSynsets[k] : k \in Loaded(lens)} |->
                                 RunStart(lens, CHOOSE k \in Loaded(lens) : LoadableSynsets[k] = s)]
          /\ synset_lens' = [s \in {LoadableSynsets[k] : k \in Loaded(lens)} |->
                               lens[CHOOSE k \in Loaded(lens) : LoadableSynsets[k] = s]]
          /\ shapenet_dir' = root
    /\ loaded' = TRUE
    /\ UNCHANGED <<model_dir, op, args, ret, samples, warnings>>

\* ---------------------------------------------------------------- inputs
Args(m, c, n, i) ==
    [NoArgs EXCEPT !.model_ids = m, !.categories = c, !.sample_nums = n, !.idxs = i]

\* sample_nums with categories: absent, any list as long as a categories list
\* can be, or a list one longer
SampleNumsArgs ==
    Opt(SeqsUpTo(Counts, MaxCats) \cup {[j \in 1..(MaxCats + 1) |-> n] : n \in Counts})
\* sample_nums without categories: absent, empty, one count, or a count
\* followed by others
DefaultNumsArgs ==
    Opt(SeqsUpTo(Counts, 1) \cup {<<n, 0>> : n \in Counts} \cup {<<n, 1, 2>> : n \in Counts})
IdxValues == (-1)..DatasetLen

\* model ids given; the other arguments absent, or values the other branches reject
ModelIdArgs ==
    {Args(Some(m), o[1], o[2], o[3]) :
        m \in NonEmptySeqs(RequestIds, MaxList),
        o \in {<<None, None, None>>, <<Some(<<"s3">>), Some(<<0, 0, 0>>), Some(<<-1>>)>>}}

\* categories given, model ids absent or empty
CategoryArgs ==
    {Args(None, Some(c), n, None) :
        c \in NonEmptySeqs(CategoryTokens, MaxCats), n \in SampleNumsArgs}
    \cup {Args(Some(<<>>), Some(c), None, Some(<<-1>>)) :
        c \in NonEmptySeqs(CategoryTokens, MaxCats)}

\* indices given, model ids and categories absent or empty
IdxArgs ==
    {Args(o[1], o[2], o[3], Some(i)) :
        i \in NonEmptySeqs(IdxValues, MaxList),
        o \in {<<None, None, None>>, <<Some(<<>>), Some(<<>>), Some(<<0, 0>>)>>}}

\* model ids, categories and indices each absent or empty
DefaultArgs ==
    {Args(m, c, n, i) :
        m \in {None, Some(<<>>)}, c \in {None, Some(<<>>)},
        n \in {None, Some(<<1>>)}, i \in {None, Some(<<>>)}}
    \cup {Args(None, None, n, None) : n \in DefaultNumsArgs}

HandleArgs == ModelIdArgs \cup CategoryArgs \cup IdxArgs \cup DefaultArgs

\* --------------------------------------------------------------- actions
\* one call of _handle_render_inputs
HandleRenderInputs ==
    /\ op = "idle"
    /\ \E a \in HandleArgs :
       \E o \in resolve_idxs(a) :
          /\ args' = a
          /\ ret' = Returned(o)
          /\ samples' = o.samples
          /\ warnings' = o.warnings
    /\ op' = "handle"
    /\ UNCHANGED catalog

\* one direct call of _sample_idxs_from_category
SampleIdxsFromCategory ==
    /\ op = "idle"
    /\ \E n \in Counts :
       \E c \in {NoCategory} \cup {Category(k) : k \in AliasTargets} :
       \E r \in sample_idxs_from_category(n, c) :
          /\ args' = [NoArgs EXCEPT !.sample_num = n, !.category = c]
          /\ ret' = [status |-> r.status,
                     err |-> IF r.status = "ok" THEN "" ELSE "sample",
                     idxs |-> r.out, paths |-> <<>>]
          /\ samples' = <<SampleCall(n, c, r)>>
          /\ warnings' = r.warned
    /\ op' = "sample"
    /\ UNCHANGED catalog

\* the caller drops the result of a finished call; nothing of a call outlives it
Release ==
    /\ op \in {"handle", "sample"}
    /\ op' = "idle"
    /\ args' = NoArgs
    /\ ret' = NoRet
    /\ samples' = <<>>
    /\ warnings' = <<>>
    /\ UNCHANGED catalog

Next == Load \/ HandleRenderInputs \/ SampleIdxsFromCategory \/ Release

Spec == Init /\ [][Next]_vars

\* =============================================================== claims
\* which branch a finished call of _handle_render_inputs had to take
ModeModelIds == op = "handle" /\ Given(args.model_ids)
ModeCategories == op = "handle" /\ ~Given(args.model_ids) /\ Given(args.categories)
ModeIdxs ==
    op = "handle" /\ ~Given(args.model_ids) /\ ~Given(args.categories) /\ Given(args.idxs)
ModeDefault ==
    op = "handle" /\ ~Given(args.model_ids) /\ ~Given(args.categories) /\ ~Given(args.idxs)

\* catalog entry at Python index i
EntryModel(i) == model_ids[i + 1]
EntrySynset(i) == synset_ids[i + 1]
InCatalog(i) == 0 <= i /\ i < Len(model_ids)

\* C1: exactly one selection mode is honored, by the precedence model ids >
\* categories > explicit indices > random from all.  With model ids given
\* nothing is sampled, nothing is warned and the only failure is the missing
\* id, whatever the other arguments hold; otherwise with categories given
\* every draw is from a category and the indices argument is not validated;
\* otherwise the given indices are validated and passed through without any
\* draw; only with all three absent or empty is there a draw from the whole
\* catalog.
C1_OneModeByPrecedence ==
    /\ ModeModelIds =>
          /\ samples = <<>> /\ warnings = <<>>
          /\ ret.err \in {"", "model_id_not_found"}
          /\ ret.status = "ok" =>
                /\ Len(ret.idxs) = Len(args.model_ids.list)
                /\ \A j \in 1..Len(ret.idxs) :
                      InCatalog(ret.idxs[j]) /\ EntryModel(ret.idxs[j]) = args.model_ids.list[j]
    /\ ModeCategories =>
          /\ ret.err \in {"", "length_mismatch", "category_not_in_dataset", "sample"}
          /\ \A j \in 1..Len(samples) : ~samples[j].category.isNone
          /\ \A j \in 1..Len(warnings) : warnings[j].kind = "replacement"
          /\ ret.status = "ok" => Len(samples) = Len(args.categories.list)
    /\ ModeIdxs =>
          /\ samples = <<>> /\ warnings = <<>>
          /\ ret.err \in {"", "idx_out_of_bounds"}
          /\ ret.status = "ok" => ret.idxs = args.idxs.list
    /\ ModeDefault =>
          /\ ret.err \in {"", "sample_nums_empty", "sample"}
          /\ \A j \in 1..Len(samples) : samples[j].category.isNone
          /\ ret.status = "ok" => Len(samples) = 1 /\ ret.idxs = samples[1].out

\* a call with model ids given succeeds although the categories, sample_nums
\* and idxs passed along would each be rejected by their own branch
C1_Witness ==
    /\ ModeModelIds /\ ret.status = "ok"
    /\ Given(args.categories) /\ Given(args.idxs) /\ Given(args.sample_nums)
    /\ args.idxs.list[1] < 0

\* C2: resolution by model id.  If every requested id is in the catalog the
\* call returns one index (and one path) per requested id, in request order,
\* duplicates kept, each index addressing an entry with the requested id; if
\* some requested id is absent the call fails with ValueError and no paths.
C2_ModelIdResolution ==
    ModeModelIds =>
        LET ids == args.model_ids.list IN
        IF \A i \in 1..Len(ids) : \E k \in 1..Len(model_ids) : model_ids[k] = ids[i]
        THEN /\ ret.status = "ok"
             /\ Len(ret.idxs) = Len(ids)
             /\ Len(ret.paths) = Len(ids)
             /\ \A j \in 1..Len(ids) :
                   InCatalog(ret.idxs[j]) /\ EntryModel(ret.idxs[j]) = ids[j]
        ELSE ret.status = "ValueError" /\ ret.paths = <<>> /\ ret.idxs = <<>>

\* the same id requested twice, after another one, and resolved
C2_Witness ==
    /\ ModeModelIds /\ ret.status = "ok"
    /\ Len(args.model_ids.list) = 2
    /\ args.model_ids.list[1] = args.model_ids.list[2]
    /\ Len(ret.idxs) = 2 /\ ret.idxs[1] = ret.idxs[2] /\ ret.idxs[1] > 0

\* C3: resolution by explicit indices.  If any given index is outside
\* [0, N), at whatever position, the call fails with IndexError and returns
\* no paths.
C3_IndexOutOfRange ==
    (ModeIdxs /\ \E j \in 1..Len(args.idxs.list) : ~InCatalog(args.idxs.list[j]))
        => ret.status = "IndexError" /\ ret.paths = <<>>

\* a non-empty catalog, a valid index first and then -1: rejected
C3_Witness ==
    /\ ModeIdxs /\ Len(model_ids) > 0
    /\ Len(args.idxs.list) = 2
    /\ InCatalog(args.idxs.list[1]) /\ args.idxs.list[2] = -1
    /\ ret.status = "IndexError"

\* the layout {rootDir}/{synsetId}/{modelId}/{fixedFilename}; joining adds no
\* separator after a root that is empty or already ends with one
RootPrefix ==
    IF shapenet_dir = <<>> \/ shapenet_dir[Len(shapenet_dir)] = Sep
    THEN shapenet_dir ELSE shapenet_dir \o <<Sep>>
LayoutPath(i) == RootPrefix \o <<EntrySynset(i), Sep, EntryModel(i), Sep>> \o model_dir

\* C4: for a valid explicit index list the call returns as many paths as
\* indices, repeated indices kept, the j-th path being the layout path of the
\* j-th index; the path list is a function of the index list and the catalog,
\* so two calls with the same list return the same paths.
C4_PathsInInputOrder ==
    (ModeIdxs /\ \A j \in 1..Len(args.idxs.list) : InCatalog(args.idxs.list[j]))
        => /\ ret.status = "ok"
           /\ ret.idxs = args.idxs.list
           /\ Len(ret.paths) = Len(args.idxs.list)
           /\ \A j \in 1..Len(ret.paths) : ret.paths[j] = LayoutPath(args.idxs.list[j])

\* two valid indices given in descending order and resolved, under a root
\* that needs a separator
C4_Witness ==
    /\ ModeIdxs /\ ret.status = "ok"
    /\ Len(args.idxs.list) = 2 /\ args.idxs.list[1] > args.idxs.list[2]
    /\ EntrySynset(args.idxs.list[1]) # EntrySynset(args.idxs.list[2])
    /\ shapenet_dir = <<"data">>
    /\ Len(ret.paths) = 2

\* the index window of an invocation c of the sampling helper, when it has one
HasWindow(c) == c.category.isNone \/ c.category.key \in DOMAIN synset_starts
WindowStart(c) == IF c.category.isNone THEN 0 ELSE synset_starts[c.category.key]
WindowLen(c) == IF c.category.isNone THEN Len(model_ids) ELSE synset_lens[c.category.key]
InWindow(c) ==
    \A j \in 1..Len(c.out) :
        WindowStart(c) <= c.out[j] /\ c.out[j] < WindowStart(c) + WindowLen(c)
Distinct(q) == \A i, j \in 1..Len(q) : i # j => q[i] # q[j]
Invocations == {samples[j] : j \in 1..Len(samples)}

\* what C5 says of one invocation
SampledWithoutReplacement(c) ==
    c.status = "ok" /\ Len(c.out) = c.sample_num /\ Distinct(c.out) /\ InWindow(c)

\* C5 as stated: whenever rangeLen >= count, the helper returns exactly count
\* pairwise distinct indices of the window.
C5_Original ==
    \A c \in Invocations :
        (HasWindow(c) /\ WindowLen(c) >= c.sample_num) => SampledWithoutReplacement(c)

\* C5 amended: whenever 1 <= count <= rangeLen, the helper returns exactly
\* count pairwise distinct indices, each within
\* [rangeStart, rangeStart + rangeLen).
C5_DistinctWithinRange ==
    \A c \in Invocations :
        (HasWindow(c) /\ 1 <= c.sample_num /\ c.sample_num <= WindowLen(c))
            => SampledWithoutReplacement(c)

\* a whole category of two models, not the first of the catalog, drawn
\* without replacement
C5_Witness ==
    \E c \in Invocations :
        /\ ~c.category.isNone /\ HasWindow(c) /\ WindowStart(c) > 0
        /\ c.sample_num = 2 /\ WindowLen(c) = 2
        /\ c.status = "ok" /\ Len(c.out) = 2

\* the warning of an invocation: it names the count and the category
Warned(c) ==
    \E j \in 1..Len(warnings) :
        /\ warnings[j].kind = "replacement"
        /\ warnings[j].sample_num = c.sample_num
        /\ warnings[j].category = c.category

\* what C6 says of one invocation
SampledWithReplacement(c) ==
    c.status = "ok" /\ Len(c.out) = c.sample_num /\ InWindow(c) /\ Warned(c)

\* C6 as stated: whenever rangeLen < count the helper does not fail, returns
\* exactly count indices of the window, and warns.
C6_Original ==
    \A c \in Invocations :
        (HasWindow(c) /\ WindowLen(c) < c.sample_num) => SampledWithReplacement(c)

\* C6 amended: whenever 1 <= rangeLen < count the helper does not fail: it
\* returns exactly count indices, each within
\* [rangeStart, rangeStart + rangeLen), and a warning naming the category
\* (or all categories) and the count is emitted.
C6_ReplacementFallback ==
    \A c \in Invocations :
        (HasWindow(c) /\ 1 <= WindowLen(c) /\ WindowLen(c) < c.sample_num)
            => SampledWithReplacement(c)

\* two indices drawn from a category of one model that is not the first of
\* the catalog: the same index twice, and the warning
C6_Witness ==
    \E c \in Invocations :
        /\ ~c.category.isNone /\ HasWindow(c) /\ WindowStart(c) > 0
        /\ WindowLen(c) = 1 /\ c.sample_num = 2
        /\ c.status = "ok" /\ c.out = <<WindowStart(c), WindowStart(c)>>
        /\ Warned(c)

\* the sample counts of a categories call, sample_nums = None read as [1]
CallNums == IF args.sample_nums.isNone THEN <<1>> ELSE args.sample_nums.list
\* the key a category token stands for
KeyOf(token) == IF token \in DOMAIN synset_inv THEN synset_inv[token] ELSE token

\* C7: with categories given, a sample_nums list that is neither as long as
\* the categories list nor of length 1 fails with ValueError before anything
\* is sampled or warned; otherwise the i-th category sampled is sampled with
\* sample_nums[0] when there is one count and with sample_nums[i] when the
\* lengths are equal.
C7_LengthRule ==
    ModeCategories =>
        IF Len(CallNums) # Len(args.categories.list) /\ Len(CallNums) # 1
        THEN /\ ret.status = "ValueError" /\ ret.err = "length_mismatch"
             /\ samples = <<>> /\ warnings = <<>> /\ ret.paths = <<>>
        ELSE /\ ret.err # "length_mismatch"
             /\ Len(samples) <= Len(args.categories.list)
             /\ \A i \in 1..Len(samples) :
                   /\ samples[i].category = Category(KeyOf(args.categories.list[i]))
                   /\ samples[i].sample_num =
                         IF Len(CallNums) = 1 THEN CallNums[1] ELSE CallNums[i]

\* two categories sampled with two different counts
C7_Witness ==
    /\ ModeCategories /\ ret.status = "ok"
    /\ Len(args.categories.list) = 2 /\ Len(CallNums) = 2
    /\ CallNums[1] # CallNums[2]
    /\ Len(samples) = 2 /\ samples[2].sample_num = CallNums[2]

\* the loop of a categories call has come to its i-th category
Reached(i) ==
    /\ ret.err # "length_mismatch"
    /\ Len(samples) >= i - 1
    /\ \A j \in 1..(i - 1) : samples[j].status = "ok"

\* C8: in a categories call every category token is resolved through the
\* alias map; when the loop comes to a token whose key is no synset of the
\* catalog the call fails with ValueError, and when it comes to a token whose
\* key is a synset of the catalog the call is not rejected for that category.
C8_UnknownCategory ==
    ModeCategories =>
        \A i \in 1..Len(args.categories.list) :
            Reached(i) =>
                LET key == KeyOf(args.categories.list[i]) IN
                IF key \notin DOMAIN synset_starts
                THEN ret.status = "ValueError" /\ Len(samples) = i - 1
                ELSE ~(ret.err = "category_not_in_dataset" /\ Len(samples) = i - 1)

\* the concatenation of the outputs of the first n invocations
RECURSIVE Concat(_)
Concat(n) == IF n = 0 THEN <<>> ELSE Concat(n - 1) \o samples[n].out

\* C9: a categories call that returns, returns the concatenation, in the
\* order of the categories list, of one segment per category; segment i has
\* the count assigned to category i and lies in that category's range, so the
\* result has as many paths as the counts sum to and every path is that of a
\* model of the requested synset.
C9_GroupedByCategory ==
    (ModeCategories /\ ret.status = "ok") =>
        /\ Len(samples) = Len(args.categories.list)
        /\ ret.idxs = Concat(Len(samples))
        /\ Len(ret.paths) = Len(ret.idxs)
        /\ \A i \in 1..Len(samples) :
              LET key == KeyOf(args.categories.list[i])
                  seg == samples[i].out
              IN  /\ Len(seg) = (IF Len(CallNums) = 1 THEN CallNums[1] ELSE CallNums[i])
                  /\ \A j \in 1..Len(seg) :
                        /\ synset_starts[key] <= seg[j]
                        /\ seg[j] < synset_starts[key] + synset_lens[key]
                        /\ EntrySynset(seg[j]) = key
        /\ \A j \in 1..Len(ret.paths) : ret.paths[j] = LayoutPath(ret.idxs[j])

\* the second synset of the catalog requested before the first, one model of
\* each
C9_Witness ==
    /\ ModeCategories /\ ret.status = "ok"
    /\ Len(samples) = 2
    /\ Len(ret.idxs) = 2 /\ ret.idxs[1] > ret.idxs[2]
    /\ EntrySynset(ret.idxs[1]) # EntrySynset(ret.idxs[2])

\* C10: with no model ids, categories or indices, the count is the first
\* element of sample_nums, or 1 when sample_nums is None; the one draw is from
\* the whole catalog; more than one count given is warned about and the call
\* goes on to the draw; a call that returns, returns that many paths, each of
\* an entry of the catalog.
C10_DefaultMode ==
    (ModeDefault /\ Len(CallNums) >= 1) =>
        /\ Len(CallNums) > 1 =>
              \E j \in 1..Len(warnings) :
                  warnings[j].kind = "more_than_one" /\ warnings[j].sample_num = CallNums[1]
        /\ Len(CallNums) = 1 =>
              \A j \in 1..Len(warnings) : warnings[j].kind # "more_than_one"
        /\ Len(samples) = 1
        /\ samples[1].category.isNone
        /\ samples[1].sample_num = CallNums[1]
        /\ ret.status = samples[1].status
        /\ ret.status = "ok" =>
              /\ Len(ret.paths) = CallNums[1]
              /\ Len(ret.idxs) = CallNums[1]
              /\ \A j \in 1..Len(ret.idxs) : InCatalog(ret.idxs[j])

\* sample_nums absent: one path of a catalog of several models
C10_Witness ==
    /\ ModeDefault /\ args.sample_nums.isNone
    /\ Len(model_ids) > 1
    /\ ret.status = "ok" /\ Len(ret.paths) = 1

====
